---- MODULE Spec2Model ----
(***************************************************************************)
(* A model of the waste-nutrient Streamlit application: the feature        *)
(* normalizer (app.py), the suitability analyzer and the synthetic target  *)
(* generator (utils.py), the plant requirement table (plant_database.py)   *)
(* and the session's upload / train / predict reruns (app.py).             *)
(*                                                                         *)
(* Numbers are exact rationals [n, d] (d > 0, lowest terms); floating      *)
(* point rounding is not modelled.  A DataFrame is a record                *)
(* [n |-> row count, c |-> [column name |-> sequence of cells]].           *)
(***************************************************************************)
EXTENDS Integers, Sequences, FiniteSets, TLC

VARIABLES
    file,     \* the uploaded CSV file (raw text cells), or NoFile
    data,     \* the DataFrame `data` of the last script run, or NoData
    stage,    \* how far normalization of `data` has come
    models,   \* st.session_state.models, or NoModels
    out,      \* what the last script run rendered
    args,     \* arguments of analyze_nutrient_suitability
    ret       \* its return value, or NoRet

vars == <<file, data, stage, models, out, args, ret>>

----------------------------------------------------------------------------
(* Bounds of the model *)

\* rows of an uploaded table: 0 .. MaxRows
MaxRows == 2
\* how far beyond a plant's thresholds a predicted percentage is drawn (1/100 %)
Margin == 1

----------------------------------------------------------------------------
(* Exact rational arithmetic standing for Python / numpy floats *)

RECURSIVE GCD(_, _)
GCD(a, b) == IF b = 0 THEN a ELSE GCD(b, a % b)

Abs(x) == IF x < 0 THEN -x ELSE x

\* the rational n/d (d > 0) in lowest terms
Rat(n, d) == LET g == GCD(Abs(n), d) IN [n |-> n \div g, d |-> d \div g]

RInt(i) == Rat(i, 1)
RAdd(a, b) == Rat(a.n * b.d + b.n * a.d, a.d * b.d)
RSub(a, b) == Rat(a.n * b.d - b.n * a.d, a.d * b.d)
RMul(a, b) == Rat(a.n * b.n, a.d * b.d)
RLt(a, b) == a.n * b.d < b.n * a.d
RGt(a, b) == RLt(b, a)
RMin(a, b) == IF RLt(b, a) THEN b ELSE a
RMax(a, b) == IF RLt(a, b) THEN b ELSE a

----------------------------------------------------------------------------
(* Cells and tables *)

Num(q) == [k |-> "num", q |-> q, s |-> ""]
Str(t) == [k |-> "str", q |-> Rat(0, 1), s |-> t]
NaN == [k |-> "nan", q |-> Rat(0, 1), s |-> ""]

\* no file uploaded / no DataFrame built: told apart from every table by n
NoFile == [n |-> -1, c |-> <<>>]
NoData == [n |-> -1, c |-> <<>>]

\* the numeric texts of the modelled CSV vocabulary and the floats they parse to
NumText ==
    [x \in {"0", "0.5", "1.0", "4.0", "7.2", "9.9", "40"} |->
        CASE x = "0" -> Rat(0, 1)
          [] x = "0.5" -> Rat(5, 10)
          [] x = "1.0" -> Rat(1, 1)
          [] x = "4.0" -> Rat(4, 1)
          [] x = "7.2" -> Rat(72, 10)
          [] x = "9.9" -> Rat(99, 10)
          [] x = "40" -> Rat(40, 1)]

IsNumText(t) == t \in DOMAIN NumText

\* pd.read_csv's column type inference: a column whose cells are all numbers
\* or empty is numeric (empty cells NaN); any other column is an object
\* column of strings (empty cells NaN).
ReadColumn(texts) ==
    LET numeric == \A i \in 1..Len(texts) : texts[i] = "" \/ IsNumText(texts[i])
    IN [i \in 1..Len(texts) |->
          IF texts[i] = "" THEN NaN
          ELSE IF numeric THEN Num(NumText[texts[i]])
          ELSE Str(texts[i])]

ReadCsv(f) == [n |-> f.n, c |-> [col \in DOMAIN f.c |-> ReadColumn(f.c[col])]]

Columns(df) == DOMAIN df.c

\* data[col] = series
SetColumn(df, col, series) ==
    [n |-> df.n,
     c |-> [x \in Columns(df) \cup {col} |-> IF x = col THEN series ELSE df.c[x]]]

\* data[col].dtype == 'object'
IsObject(series) == \E i \in 1..Len(series) : series[i].k = "str"

IsNa(cell) == cell.k = "nan"
AnyNa(series) == \E i \in 1..Len(series) : IsNa(series[i])

----------------------------------------------------------------------------
(* app.py: constants *)

DefaultColumns ==
    <<"Waste_Type", "Moisture_Content", "pH_Level", "Carbon_Content",
      "Particle_Size_mm", "Age_Days", "Degradation_Rate">>

DEFAULT_VALUES ==
    [Waste_Type |-> Str("Mixed"),
     Moisture_Content |-> Num(Rat(50, 1)),
     pH_Level |-> Num(Rat(65, 10)),
     Carbon_Content |-> Num(Rat(35, 1)),
     Particle_Size_mm |-> Num(Rat(10, 1)),
     Age_Days |-> Num(Rat(30, 1)),
     Degradation_Rate |-> Num(Rat(1, 1))]

MappedColumns ==
    <<"Moisture_Content", "pH_Level", "Carbon_Content",
      "Particle_Size_mm", "Age_Days", "Degradation_Rate">>

CATEGORICAL_MAPPINGS ==
    [Moisture_Content |-> [Low |-> Rat(30, 1), Medium |-> Rat(50, 1), High |-> Rat(70, 1)],
     pH_Level |-> [Low |-> Rat(45, 10), Medium |-> Rat(65, 10), High |-> Rat(85, 10)],
     Carbon_Content |-> [Low |-> Rat(25, 1), Medium |-> Rat(35, 1), High |-> Rat(45, 1)],
     Particle_Size_mm |-> [Small |-> Rat(2, 1), Medium |-> Rat(10, 1), Large |-> Rat(25, 1)],
     Age_Days |-> [Young |-> Rat(15, 1), Medium |-> Rat(30, 1), Old |-> Rat(60, 1)],
     Degradation_Rate |-> [Slow |-> Rat(5, 10), Medium |-> Rat(1, 1), Fast |-> Rat(2, 1)]]

numeric_columns ==
    <<"Moisture_Content", "pH_Level", "Carbon_Content",
      "Particle_Size_mm", "Age_Days", "Degradation_Rate">>

Range(seq) == {seq[i] : i \in 1..Len(seq)}

----------------------------------------------------------------------------
(* app.py: convert_categorical_to_numeric *)

\* one element of series.isin(mapping.keys())
IsIn(cell, mapping) == cell.k = "str" /\ cell.s \in DOMAIN mapping

\* series.map(mapping): a value that is no key of the dict maps to NaN
SeriesMap(series, mapping) ==
    [i \in 1..Len(series) |->
        IF IsIn(series[i], mapping) THEN Num(mapping[series[i].s]) ELSE NaN]

\* the body of the loop for one (col, mapping) item
ConvertColumn(df, col) ==
    LET mapping == CATEGORICAL_MAPPINGS[col] IN
    IF col \in Columns(df) /\ IsObject(df.c[col])
       /\ (\E i \in 1..Len(df.c[col]) : IsIn(df.c[col][i], mapping))
    THEN SetColumn(df, col, SeriesMap(df.c[col], mapping))
    ELSE df

RECURSIVE ConvertLoop(_, _)
ConvertLoop(df, i) ==
    IF i > Len(MappedColumns) THEN df
    ELSE ConvertLoop(ConvertColumn(df, MappedColumns[i]), i + 1)

convert_categorical_to_numeric(df) == ConvertLoop(df, 1)

----------------------------------------------------------------------------
(* app.py: handle_missing_data *)

\* data[col] = default_value: the scalar in every row
Broadcast(df, cell) == [i \in 1..df.n |-> cell]

\* a variant that assigns the default whether or not the column exists
InsertDefaultAlways(df, col) ==
    SetColumn(df, col, Broadcast(df, DEFAULT_VALUES[col]))

InsertDefault(df, col) ==
    IF col \notin Columns(df)
    THEN SetColumn(df, col, Broadcast(df, DEFAULT_VALUES[col]))
    ELSE df

RECURSIVE InsertLoop(_, _)
InsertLoop(df, i) ==
    IF i > Len(DefaultColumns) THEN df
    ELSE InsertLoop(InsertDefault(df, DefaultColumns[i]), i + 1)

\* pd.to_numeric(series, errors='coerce')
ToNumeric(series) ==
    [i \in 1..Len(series) |->
        IF series[i].k = "str"
        THEN (IF IsNumText(series[i].s) THEN Num(NumText[series[i].s]) ELSE NaN)
        ELSE series[i]]

\* pd.to_numeric with errors='coerce' raises for no cell a CSV column can hold
ToNumericRaises(series) == FALSE

RECURSIVE SumFrom(_, _)
SumFrom(series, i) ==
    IF i > Len(series) THEN Rat(0, 1)
    ELSE IF IsNa(series[i]) THEN SumFrom(series, i + 1)
    ELSE RAdd(series[i].q, SumFrom(series, i + 1))

Count(series) == Cardinality({i \in 1..Len(series) : ~IsNa(series[i])})

\* series.mean(): NaN entries are skipped; the mean of no value is NaN
Mean(series) ==
    IF Count(series) = 0 THEN NaN
    ELSE LET s == SumFrom(series, 1) IN Num(Rat(s.n, s.d * Count(series)))

\* series.fillna(value): filling with NaN leaves the series as it is
FillNa(series, value) ==
    [i \in 1..Len(series) |-> IF IsNa(series[i]) THEN value ELSE series[i]]

\* the body of the loop over numeric_columns
CoerceColumn(df, col) ==
    IF col \notin Columns(df) THEN df
    ELSE IF ToNumericRaises(df.c[col])
    THEN SetColumn(df, col, Broadcast(df, DEFAULT_VALUES[col]))
    ELSE LET num == ToNumeric(df.c[col]) IN
         IF AnyNa(num) THEN SetColumn(df, col, FillNa(num, Mean(num)))
         ELSE SetColumn(df, col, num)

RECURSIVE CoerceLoop(_, _)
CoerceLoop(df, i) ==
    IF i > Len(numeric_columns) THEN df
    ELSE CoerceLoop(CoerceColumn(df, numeric_columns[i]), i + 1)

handle_missing_data(df) == CoerceLoop(InsertLoop(df, 1), 1)

\* the "Data Quality Notice" of handle_missing_data
QualityNotice(df) ==
    \/ \E col \in Range(DefaultColumns) : col \notin Columns(df)
    \/ \E col \in Range(numeric_columns) :
          col \in Columns(df) /\ AnyNa(ToNumeric(df.c[col]))

\* the normalization of the script: lines 140 and 143
Normalize(df) == handle_missing_data(convert_categorical_to_numeric(df))

----------------------------------------------------------------------------
(* plant_database.py *)

Req(lo, hi, opt) == [min |-> Rat(lo, 10), max |-> Rat(hi, 10), optimal |-> Rat(opt, 10)]

plant_requirements ==
    ("Tomatoes" :> [Nitrogen |-> Req(15, 35, 25), Phosphorus |-> Req(3, 8, 5),
                    Potassium |-> Req(12, 25, 18)])
 @@ ("Leafy Greens" :> [Nitrogen |-> Req(20, 40, 30), Phosphorus |-> Req(2, 5, 3),
                        Potassium |-> Req(10, 20, 15)])
 @@ ("Root Vegetables" :> [Nitrogen |-> Req(10, 20, 15), Phosphorus |-> Req(4, 9, 6),
                           Potassium |-> Req(15, 30, 20)])
 @@ ("Fruit Trees" :> [Nitrogen |-> Req(12, 25, 18), Phosphorus |-> Req(3, 7, 5),
                       Potassium |-> Req(14, 28, 20)])
 @@ ("Grains" :> [Nitrogen |-> Req(10, 22, 16), Phosphorus |-> Req(2, 5, 3),
                  Potassium |-> Req(10, 20, 15)])

PlantTypes == DOMAIN plant_requirements

----------------------------------------------------------------------------
(* utils.py: analyze_nutrient_suitability *)

Nutrients == <<"Nitrogen", "Phosphorus", "Potassium">>

\* f'{nutrient}_pct'
PctKey(nutrient) ==
    CASE nutrient = "Nitrogen" -> "Nitrogen_pct"
      [] nutrient = "Phosphorus" -> "Phosphorus_pct"
      [] nutrient = "Potassium" -> "Potassium_pct"

\* a variant whose comparisons include the boundaries
StatusInclusive(value, req) ==
    IF ~RGt(value, req.min) THEN "Low"
    ELSE IF ~RLt(value, req.max) THEN "High"
    ELSE "Optimal"

\* the if / elif / else on value, req['min'], req['max']
Status(value, req) ==
    IF RLt(value, req.min) THEN "Low"
    ELSE IF RGt(value, req.max) THEN "High"
    ELSE "Optimal"

\* the f-string of the action, as its pieces
ActionText(status, nutrient) ==
    CASE status = "Low" -> <<"Increase ", nutrient>>
      [] status = "High" -> <<"Reduce ", nutrient>>
      [] OTHER -> <<"Maintain levels">>

LowText(nutrient) ==
    <<"- ", nutrient, " is low. Consider supplementing with ", nutrient, "-rich materials.">>
HighText(nutrient) ==
    <<"- ", nutrient, " is high. Consider mixing with lower ", nutrient, " materials.">>

\* a variant that puts the newest recommendation first
RecommendFirst(recommendations, nutrient, status) ==
    IF status # "Optimal"
    THEN IF status = "Low"
         THEN <<LowText(nutrient)>> \o recommendations
         ELSE <<HighText(nutrient)>> \o recommendations
    ELSE recommendations

\* the recommendations list after the nutrient's verdict
Recommend(recommendations, nutrient, status) ==
    IF status # "Optimal"
    THEN IF status = "Low"
         THEN Append(recommendations, LowText(nutrient))
         ELSE Append(recommendations, HighText(nutrient))
    ELSE recommendations

\* one iteration of the loop over the nutrients
AnalyzeNutrient(acc, predictions, plant_info, nutrient) ==
    IF PctKey(nutrient) \in DOMAIN predictions
    THEN LET value == predictions[PctKey(nutrient)]
             req == plant_info[nutrient]
             status == Status(value, req)
         IN [suitability |->
                [x \in DOMAIN acc.suitability \cup {nutrient} |->
                    IF x = nutrient
                    THEN [status |-> status, current |-> value,
                          optimal |-> req.optimal,
                          action |-> ActionText(status, nutrient)]
                    ELSE acc.suitability[x]],
             recommendations |-> Recommend(acc.recommendations, nutrient, status)]
    ELSE acc

RECURSIVE AnalyzeLoop(_, _, _, _)
AnalyzeLoop(acc, predictions, plant_info, i) ==
    IF i > Len(Nutrients) THEN acc
    ELSE AnalyzeLoop(AnalyzeNutrient(acc, predictions, plant_info, Nutrients[i]),
                     predictions, plant_info, i + 1)

analyze_nutrient_suitability(predictions, plant_info) ==
    AnalyzeLoop([suitability |-> <<>>, recommendations |-> <<>>],
                predictions, plant_info, 1)

----------------------------------------------------------------------------
(* utils.py: generate_synthetic_targets *)

target_variables == <<"Nitrogen_pct", "Phosphorus_pct", "Potassium_pct">>

\* series.clip(lo, hi)
Clip(q, lo, hi) == IF RLt(q, lo) THEN lo ELSE IF RGt(q, hi) THEN hi ELSE q

\* (data['Waste_Type'] == kind) * draw, for one row
Indicator(cell, kind, draw) ==
    IF cell.k = "str" /\ cell.s = kind THEN draw ELSE Rat(0, 1)

\* one row of each synthesized column; arithmetic on a NaN feature is NaN
SynthNitrogen(wt, moisture, ph, d) ==
    IF IsNa(moisture) \/ IsNa(ph) THEN NaN
    ELSE Num(Clip(RSub(RAdd(RAdd(Indicator(wt, "Food", d.nf), Indicator(wt, "Garden", d.ng)),
                            RMul(moisture.q, Rat(1, 100))),
                       RMul(ph.q, Rat(1, 10))),
                  Rat(5, 100), Rat(5, 1)))

SynthPhosphorus(wt, carbon, d) ==
    IF IsNa(carbon) THEN NaN
    ELSE Num(Clip(RAdd(Indicator(wt, "Food", d.pf), RMul(carbon.q, Rat(5, 1000))),
                  Rat(1, 100), Rat(2, 1)))

SynthPotassium(wt, moisture, d) ==
    IF IsNa(moisture) THEN NaN
    ELSE Num(Clip(RAdd(Indicator(wt, "Food", d.kf), RMul(moisture.q, Rat(8, 1000))),
                  Rat(5, 100), Rat(3, 1)))

\* draws[i]: the values np.random.uniform gave row i
generate_synthetic_targets(df, draws) ==
    LET n1 == SetColumn(df, "Nitrogen_pct",
                  [i \in 1..df.n |->
                      SynthNitrogen(df.c["Waste_Type"][i], df.c["Moisture_Content"][i],
                                    df.c["pH_Level"][i], draws[i])])
        n2 == SetColumn(n1, "Phosphorus_pct",
                  [i \in 1..df.n |->
                      SynthPhosphorus(df.c["Waste_Type"][i], df.c["Carbon_Content"][i],
                                      draws[i])])
    IN SetColumn(n2, "Potassium_pct",
                  [i \in 1..df.n |->
                      SynthPotassium(df.c["Waste_Type"][i], df.c["Moisture_Content"][i],
                                     draws[i])])

\* values np.random.uniform(lo, hi) may give: the low end and the middle
Uniform(lo, hi) == {lo, RMul(RAdd(lo, hi), Rat(1, 2))}

HasType(df, kind) ==
    \E i \in 1..df.n : df.c["Waste_Type"][i].k = "str" /\ df.c["Waste_Type"][i].s = kind

\* the arrays np.random.uniform(lo, hi, n) may give: one of the two values
\* in the first row and one of them in all the rows after it
DrawArrays(n, lo, hi) ==
    {[i \in 1..n |-> IF i = 1 THEN first ELSE rest]
       : first \in Uniform(lo, hi), rest \in Uniform(lo, hi)}

\* the draws of one call, by row; an array that no row's indicator lets
\* through is fixed at the low end, for it does not reach the result
DrawSeqs(df) ==
    LET food == HasType(df, "Food")
        garden == HasType(df, "Garden")
        low(lo) == {[i \in 1..df.n |-> lo]}
    IN {[i \in 1..df.n |-> [nf |-> nf[i], ng |-> ng[i], pf |-> pf[i], kf |-> kf[i]]]
          : nf \in IF food THEN DrawArrays(df.n, Rat(15, 10), Rat(4, 1)) ELSE low(Rat(15, 10)),
            ng \in IF garden THEN DrawArrays(df.n, Rat(5, 10), Rat(2, 1)) ELSE low(Rat(5, 10)),
            pf \in IF food THEN DrawArrays(df.n, Rat(3, 10), Rat(12, 10)) ELSE low(Rat(3, 10)),
            kf \in IF food THEN DrawArrays(df.n, Rat(1, 1), Rat(25, 10)) ELSE low(Rat(1, 1))}

NoDraws(df) == [i \in 1..df.n |-> [nf |-> Rat(0, 1), ng |-> Rat(0, 1),
                                   pf |-> Rat(0, 1), kf |-> Rat(0, 1)]]

----------------------------------------------------------------------------
(* app.py: the Train Model handler *)

NoModels == [present |-> FALSE, fitted |-> <<>>]

\* not all(target in data.columns for target in target_variables)
NeedsSynthetic(df) == \E t \in Range(target_variables) : t \notin Columns(df)

\* the test sizes of the slider that are tried: the default 20 % and 50 %
TestSizes == {20, 50}

\* train_test_split: n_test = ceil(test_size * n), n_train = n - n_test
NTrain(n, ts) == n - ((ts * n + 99) \div 100)

\* the rows train_test_split may put in the training part (random_state=42
\* fixes one shuffle per row count; which one is not modelled)
Splits(n, ts) == {rows \in SUBSET (1..n) : Cardinality(rows) = NTrain(n, ts)}

\* train_test_split raises on an empty training part; fit raises on a NaN in
\* y_train
FitRaises(df, target, rows) ==
    \/ rows = {}
    \/ \E i \in rows : IsNa(df.c[target][i])

RECURSIVE LeastOf(_), GreatestOf(_)
LeastOf(qs) ==
    LET q == CHOOSE x \in qs : TRUE IN
    IF qs = {q} THEN q ELSE RMin(q, LeastOf(qs \ {q}))
GreatestOf(qs) ==
    LET q == CHOOSE x \in qs : TRUE IN
    IF qs = {q} THEN q ELSE RMax(q, GreatestOf(qs \ {q}))

\* model.fit(X_train, y_train): the fitted pipeline, known by the training
\* action that made it and by the least and greatest target it was fitted on
Fit(df, target, rows, by) ==
    LET ys == {df.c[target][i].q : i \in rows} IN
    [by |-> by, lo |-> LeastOf(ys), hi |-> GreatestOf(ys)]

\* the loop over target_variables from target i on: << local models, the
\* index of the target whose split or fit raised (0: none) >>
RECURSIVE TrainLoop(_, _, _, _, _)
TrainLoop(local, df, rows, by, i) ==
    IF i > Len(target_variables) THEN <<local, 0>>
    ELSE IF FitRaises(df, target_variables[i], rows) THEN <<local, i>>
    ELSE TrainLoop([t \in DOMAIN local \cup {target_variables[i]} |->
                       IF t = target_variables[i]
                       THEN Fit(df, target_variables[i], rows, by)
                       ELSE local[t]],
                   df, rows, by, i + 1)

\* the tag of a training action: 1 or 2, and not the tag of the pipelines
\* the session holds
NewTag(prev) ==
    IF prev.present /\ (\E t \in DOMAIN prev.fitted : prev.fitted[t].by = 1) THEN 2 ELSE 1

\* a variant that stores each pipeline as soon as it is fitted
CommitEach(prev, local, failedAt) ==
    [present |-> prev.present \/ DOMAIN local # {},
     fitted |-> [t \in DOMAIN local \cup DOMAIN prev.fitted |->
                   IF t \in DOMAIN local THEN local[t] ELSE prev.fitted[t]]]

\* st.session_state.models after the handler: assigned once, after the loop
CommitModels(prev, local, failedAt) ==
    IF failedAt = 0 THEN [present |-> TRUE, fitted |-> local] ELSE prev

----------------------------------------------------------------------------
(* app.py: the prediction section *)

WasteTypeOptions == {"Food", "Garden", "Paper", "Mixed", "Agricultural"}

Occurrences(series, cell) == Cardinality({i \in 1..Len(series) : series[i] = cell})

\* the values series.mode() may start with: the most frequent non-NaN ones
Modes(series) ==
    {series[i] : i \in {j \in 1..Len(series) :
        /\ ~IsNa(series[j])
        /\ \A k \in 1..Len(series) :
             IsNa(series[k]) \/ Occurrences(series, series[k]) <= Occurrences(series, series[j])}}

\* st.slider(label, lo, hi, mean): raises for a default outside the range
SliderRaises(series, lo, hi) ==
    LET m == Mean(series) IN IsNa(m) \/ RLt(m.q, lo) \/ RGt(m.q, hi)

\* building the input form raises: no mode of Waste_Type, a mode that is no
\* option, or a column mean outside its slider
SectionRaises(df) ==
    \/ Modes(df.c["Waste_Type"]) = {}
    \/ \E m \in Modes(df.c["Waste_Type"]) : m.k # "str" \/ m.s \notin WasteTypeOptions
    \/ SliderRaises(df.c["Moisture_Content"], Rat(10, 1), Rat(90, 1))
    \/ SliderRaises(df.c["pH_Level"], Rat(35, 10), Rat(9, 1))
    \/ SliderRaises(df.c["Carbon_Content"], Rat(10, 1), Rat(60, 1))
    \/ SliderRaises(df.c["Particle_Size_mm"], Rat(5, 10), Rat(50, 1))
    \/ SliderRaises(df.c["Age_Days"], Rat(1, 1), Rat(365, 1))
    \/ SliderRaises(df.c["Degradation_Rate"], Rat(1, 10), Rat(5, 1))

\* a variant that renders the prediction section in every run
SectionShownAlways(m) == TRUE

\* if 'models' in st.session_state
SectionShown(m) == m.present

\* the carbon_content slider values that are tried (range 10.0 .. 60.0)
CarbonInputs == {Rat(20, 1), Rat(30, 1), Rat(40, 1), Rat(60, 1)}

\* model.predict(input_data)[0]: a forest's estimate is a mean of training
\* targets, so it lies between the least and the greatest of them; the two
\* ends are tried
Predictable(model) == {model.lo, model.hi}

\* the estimates of the session's pipeline for a target, if it has one
Estimates(m, target) ==
    IF target \in DOMAIN m.fitted THEN Predictable(m.fitted[target]) ELSE {Rat(0, 1)}

\* carbon_content / predictions['Nitrogen_pct'] in numpy float64 arithmetic:
\* a positive number divided by zero is inf
Ratio(carbon, nitrogen) ==
    IF nitrogen.n = 0 THEN [inf |-> TRUE, q |-> Rat(0, 1)]
    ELSE [inf |-> FALSE,
          q |-> IF nitrogen.n > 0 THEN Rat(carbon.n * nitrogen.d, carbon.d * nitrogen.n)
                ELSE Rat(-(carbon.n * nitrogen.d), carbon.d * (-nitrogen.n))]

\* a variant whose comparisons include the thresholds
CNVerdictInclusive(ratio) ==
    IF ratio.inf \/ ~RLt(ratio.q, RInt(30)) THEN "high"
    ELSE IF ~RGt(ratio.q, RInt(15)) THEN "low"
    ELSE "optimal"

\* the if / elif / else on c_n_ratio
CNVerdict(ratio) ==
    IF ratio.inf \/ RGt(ratio.q, RInt(30)) THEN "high"
    ELSE IF RLt(ratio.q, RInt(15)) THEN "low"
    ELSE "optimal"

----------------------------------------------------------------------------
(* Values of the variables a specification does not use *)

NoArgs == [plant |-> "", predictions |-> <<>>]
NoRet == [done |-> FALSE, suitability |-> <<>>, recommendations |-> <<>>]

----------------------------------------------------------------------------
(* app.py: one run of the script per user action *)

NoPrediction == [carbon |-> Rat(0, 1), predictions |-> <<>>, plants |-> <<>>,
                 ratio |-> [inf |-> FALSE, q |-> Rat(0, 1)], cn |-> "none"]

\* what a run rendered: the user action that started it, the messages, the
\* buttons on the page, and the result of "Predict and Analyze"
Page(request, msgs, trainOffered, offered, failedAt, prediction) ==
    [request |-> request, msgs |-> msgs, trainOffered |-> trainOffered,
     offered |-> offered, failedAt |-> failedAt,
     predicted |-> prediction # NoPrediction, result |-> prediction]

\* the page of a specification that runs no script
Blank == Page("none", {}, FALSE, FALSE, 0, NoPrediction)

----------------------------------------------------------------------------
(* The session: uploads, trainings and prediction requests *)

\* pd.read_csv raises EmptyDataError on a file without columns
ReadRaises(f) == DOMAIN f.c = {}

LoadedMsgs(f) ==
    {"Dataset successfully loaded!"}
    \cup IF QualityNotice(convert_categorical_to_numeric(ReadCsv(f)))
         THEN {"Data Quality Notice"} ELSE {}

DataOf(f) == IF f = NoFile \/ ReadRaises(f) THEN NoData ELSE Normalize(ReadCsv(f))

\* all cells t, but the first one empty when dirty
Filled(n, t, dirty) == [i \in 1..n |-> IF dirty /\ i = 1 THEN "" ELSE t]

\* files that hold targets only: Nitrogen_pct absent or one of three
\* percentages in every row; Phosphorus_pct and Potassium_pct both absent,
\* or both 0.5 in every row but for a missing first cell in at most one
TargetFiles(n) ==
    {[n |-> n,
      c |-> [x \in nc \cup pk.cols |->
               CASE x = "Nitrogen_pct" -> Filled(n, nt, FALSE)
                 [] x = "Phosphorus_pct" -> Filled(n, "0.5", pk.dirty = x)
                 [] x = "Potassium_pct" -> Filled(n, "0.5", pk.dirty = x)]]
     : nc \in {{}, {"Nitrogen_pct"}},
       nt \in {"0", "1.0", "4.0"},
       pk \in {[cols |-> {}, dirty |-> ""],
               [cols |-> {"Phosphorus_pct", "Potassium_pct"}, dirty |-> ""],
               [cols |-> {"Phosphorus_pct", "Potassium_pct"}, dirty |-> "Phosphorus_pct"],
               [cols |-> {"Phosphorus_pct", "Potassium_pct"}, dirty |-> "Potassium_pct"]}}

\* files that hold features only: Waste_Type Food in every row
FeatureFiles(n) == {[n |-> n, c |-> [x \in {"Waste_Type"} |-> Filled(n, "Food", FALSE)]]}

\* the files a user uploads in a session
SessionFiles == UNION {TargetFiles(n) \cup FeatureFiles(n) : n \in 0..MaxRows}

\* the script's lines that depend on the file alone, evaluated once per
\* file: the normalized table, whether read_csv raises, the messages of
\* loading, and whether building the prediction form raises
Loaded ==
    [f \in SessionFiles \cup {NoFile} |->
        [data |-> DataOf(f),
         raises |-> f # NoFile /\ ReadRaises(f),
         msgs |-> IF f = NoFile THEN {} ELSE LoadedMsgs(f),
         sectionRaises |-> f # NoFile /\ ~ReadRaises(f) /\ SectionRaises(DataOf(f))]]

\* lines 151-188 for a file and a tag, evaluated once: every outcome of the
\* handler's body over the test sizes, the split and the random draws: the
\* table after it, the local models and the target that raised (0: none)
TrainOutcomes(f, by) ==
    LET base == DataOf(f)
        synth == NeedsSynthetic(base)
    IN UNION {
         UNION {
           { LET df == IF synth THEN generate_synthetic_targets(base, draws) ELSE base
                 loop == TrainLoop(<<>>, df, rows, by, 1)
             IN [df |-> df, synth |-> synth, fitted |-> loop[1], failedAt |-> loop[2]]
             : draws \in (IF synth THEN DrawSeqs(base) ELSE {NoDraws(base)}) }
           : rows \in Splits(base.n, ts) }
         : ts \in TestSizes }

Trained ==
    [f \in {g \in SessionFiles : ~ReadRaises(g)} |-> [by \in {1, 2} |-> TrainOutcomes(f, by)]]

\* a run in which no button is clicked
PlainRun(request, f, m) ==
    IF f = NoFile
    THEN Page(request, {"Please upload a CSV file to begin analysis."},
              FALSE, FALSE, 0, NoPrediction)
    ELSE IF Loaded[f].raises
    THEN Page(request, {"Error processing the file"}, FALSE, FALSE, 0, NoPrediction)
    ELSE IF SectionShown(m) /\ Loaded[f].sectionRaises
    THEN Page(request, Loaded[f].msgs \cup {"Error processing the file"},
              TRUE, FALSE, 0, NoPrediction)
    ELSE Page(request, Loaded[f].msgs, TRUE, SectionShown(m), 0, NoPrediction)

\* the body of "Predict and Analyze" for the chosen estimates and carbon
PredictRun(f, m, picks, carbon) ==
    LET predictions == [t \in DOMAIN m.fitted |-> picks[t]]
        plants == [p \in PlantTypes |->
                     analyze_nutrient_suitability(predictions, plant_requirements[p])]
    IN IF "Nitrogen_pct" \notin DOMAIN predictions
       THEN Page("predict", Loaded[f].msgs \cup {"Error processing the file"},
                 TRUE, TRUE, 0,
                 [carbon |-> carbon, predictions |-> predictions, plants |-> plants,
                  ratio |-> [inf |-> FALSE, q |-> Rat(0, 1)], cn |-> "none"])
       ELSE LET c_n_ratio == Ratio(carbon, predictions["Nitrogen_pct"]) IN
            Page("predict", Loaded[f].msgs, TRUE, TRUE, 0,
                 [carbon |-> carbon, predictions |-> predictions, plants |-> plants,
                  ratio |-> c_n_ratio, cn |-> CNVerdict(c_n_ratio)])

Init ==
    /\ file = NoFile
    /\ data = NoData
    /\ stage = "none"
    /\ models = NoModels
    /\ out = PlainRun("none", NoFile, NoModels)
    /\ args = NoArgs
    /\ ret = NoRet

\* the user uploads (or replaces) the CSV file: lines 130-143, 194-222
Upload ==
    /\ args = NoArgs
    /\ \E f \in SessionFiles :
         /\ file' = f
         /\ data' = Loaded[f].data
         /\ stage' = IF Loaded[f].raises THEN "none" ELSE "normalized"
         /\ out' = PlainRun("upload", f, models)
    /\ UNCHANGED <<models, args, ret>>

\* the user removes the file: lines 300-301
RemoveFile ==
    /\ file # NoFile
    /\ file' = NoFile
    /\ data' = NoData
    /\ stage' = "none"
    /\ out' = PlainRun("remove", NoFile, models)
    /\ UNCHANGED <<models, args, ret>>

\* the user clicks "Train Model": lines 130-222.  The prediction form reads
\* feature columns only, which generate_synthetic_targets leaves as they
\* are: whether building it raises is that of the file's table.
Train ==
    /\ out.trainOffered
    /\ \E o \in Trained[file][NewTag(models)] :
         LET msgs == Loaded[file].msgs
                     \cup (IF o.synth THEN {"Target variables not found in dataset."}
                           ELSE {})
         IN /\ models' = CommitModels(models, o.fitted, o.failedAt)
            /\ data' = o.df
            /\ stage' = "trained"
            /\ out' =
                 IF o.failedAt # 0
                 THEN Page("train", msgs \cup {"Error processing the file"},
                           TRUE, FALSE, o.failedAt, NoPrediction)
                 ELSE IF Loaded[file].sectionRaises
                 THEN Page("train", msgs \cup {"Models trained successfully!",
                                               "Error processing the file"},
                           TRUE, FALSE, 0, NoPrediction)
                 ELSE Page("train", msgs \cup {"Models trained successfully!"},
                           TRUE, TRUE, 0, NoPrediction)
    /\ UNCHANGED <<file, args, ret>>

\* the user asks for a prediction: a click on "Predict and Analyze" when the
\* page has the button (lines 224-296), and otherwise a run that renders
\* the page as it is without one (lines 130-143, 194)
Predict ==
    /\ args = NoArgs
    /\ IF out.offered
       THEN \E carbon \in CarbonInputs :
              \E pn \in Estimates(models, "Nitrogen_pct"),
                 pp \in Estimates(models, "Phosphorus_pct"),
                 pk \in Estimates(models, "Potassium_pct") :
                out' = PredictRun(file, models,
                                  [Nitrogen_pct |-> pn, Phosphorus_pct |-> pp,
                                   Potassium_pct |-> pk], carbon)
       ELSE out' = PlainRun("predict", file, models)
    /\ data' = Loaded[file].data
    /\ stage' = IF data' = NoData THEN "none" ELSE "normalized"
    /\ UNCHANGED <<file, models, args, ret>>

Next == Upload \/ RemoveFile \/ Train \/ Predict

Spec == Init /\ [][Next]_vars

----------------------------------------------------------------------------
(* The suitability analyzer applied to bounded inputs *)

\* predicted percentages around the thresholds of a requirement, and the
\* percentages 1.0, 0.5 and 1.8
Candidates(req) ==
    {req.min, req.optimal, req.max}
    \cup {Rat(10, 10), Rat(5, 10), Rat(18, 10)}
    \cup {RSub(req.min, Rat(m, 100)) : m \in 1..Margin}
    \cup {RAdd(req.max, Rat(m, 100)) : m \in 1..Margin}

\* a nutrient is absent from the prediction or has one of the candidate values
Choices(req) ==
    {[has |-> FALSE, v |-> Rat(0, 1)]} \cup {[has |-> TRUE, v |-> c] : c \in Candidates(req)}

Prediction(ch) ==
    [key \in {PctKey(x) : x \in {y \in Range(Nutrients) : ch[y].has}} |->
        CASE key = "Nitrogen_pct" -> ch["Nitrogen"].v
          [] key = "Phosphorus_pct" -> ch["Phosphorus"].v
          [] key = "Potassium_pct" -> ch["Potassium"].v]

InitAnalyze ==
    /\ file = NoFile /\ data = NoData /\ stage = "none"
    /\ models = NoModels /\ out = Blank
    /\ \E plant \in PlantTypes :
         \E cn \in Choices(plant_requirements[plant].Nitrogen),
            cp \in Choices(plant_requirements[plant].Phosphorus),
            ck \in Choices(plant_requirements[plant].Potassium) :
           args = [plant |-> plant,
                   predictions |-> Prediction([Nitrogen |-> cn, Phosphorus |-> cp,
                                               Potassium |-> ck])]
    /\ ret = NoRet

Analyze ==
    /\ args # NoArgs
    /\ ~ret.done
    /\ LET r == analyze_nutrient_suitability(args.predictions, plant_requirements[args.plant])
       IN ret' = [done |-> TRUE, suitability |-> r.suitability,
                  recommendations |-> r.recommendations]
    /\ UNCHANGED <<file, data, stage, models, out, args>>

NextAnalyze == Analyze

SpecAnalyze == InitAnalyze /\ [][NextAnalyze]_vars

----------------------------------------------------------------------------
(* The normalizer applied to bounded tables *)

FeatureColumns == Range(DefaultColumns)
AllColumns == FeatureColumns \cup {"Nitrogen_pct"}

\* the text a CSV cell may hold: empty, numbers, labels, an unknown word
CsvTexts == {"", "7.2", "40", "High", "Medium", "abc"}

\* a well-formed cell of a column
CleanText(col) ==
    CASE col = "Waste_Type" -> "Food"
      [] col = "Nitrogen_pct" -> "1.0"
      [] OTHER -> "7.2"

\* a table of n rows over a non-empty set of columns: one column (focus)
\* holds the given texts, the others well-formed cells
NormFile(n, present, focus, texts) ==
    [n |-> n,
     c |-> [col \in present |->
              IF col = focus THEN texts ELSE [i \in 1..n |-> CleanText(col)]]]

InitNorm ==
    /\ \E n \in 0..MaxRows :
         \E present \in (SUBSET AllColumns) \ {{}} :
           \E focus \in present :
             \E texts \in [1..n -> CsvTexts] :
               file = NormFile(n, present, focus, texts)
    /\ data = ReadCsv(file)
    /\ stage = "raw"
    /\ models = NoModels /\ out = Blank
    /\ args = NoArgs /\ ret = NoRet

\* line 140
ConvertStep ==
    /\ stage = "raw"
    /\ data' = convert_categorical_to_numeric(data)
    /\ stage' = "converted"
    /\ UNCHANGED <<file, models, out, args, ret>>

\* line 143
HandleMissingStep ==
    /\ stage = "converted"
    /\ data' = handle_missing_data(data)
    /\ stage' = "normalized"
    /\ UNCHANGED <<file, models, out, args, ret>>

NextNorm == ConvertStep \/ HandleMissingStep

SpecNorm == InitNorm /\ [][NextNorm]_vars

----------------------------------------------------------------------------
(* Claims about analyze_nutrient_suitability (SpecAnalyze) *)

\* C1: every nutrient whose N_pct key is in the prediction gets exactly one
\* verdict: Low with an increase action if current < min, High with a reduce
\* action if current > max, Optimal with a maintain action otherwise (so
\* current = min and current = max are Optimal); 'current' is the predicted
\* value and 'optimal' the entry's optimal; an absent nutrient gets no verdict.
C1_Verdicts ==
    ret.done =>
      \A x \in Range(Nutrients) :
        LET req == plant_requirements[args.plant][x] IN
        IF PctKey(x) \in DOMAIN args.predictions
        THEN /\ x \in DOMAIN ret.suitability
             /\ LET cur == args.predictions[PctKey(x)]
                    v == ret.suitability[x]
                    below == cur.n * req.min.d < req.min.n * cur.d
                    above == cur.n * req.max.d > req.max.n * cur.d
                IN /\ v.current = cur
                   /\ v.optimal = req.optimal
                   /\ v.status \in {"Low", "Optimal", "High"}
                   /\ below => v.status = "Low" /\ v.action = <<"Increase ", x>>
                   /\ above => v.status = "High" /\ v.action = <<"Reduce ", x>>
                   /\ (~below /\ ~above) =>
                        v.status = "Optimal" /\ v.action = <<"Maintain levels">>
        ELSE x \notin DOMAIN ret.suitability

\* a run with Nitrogen exactly at min (Optimal), Phosphorus exactly at max
\* (Optimal) or below min (Low), and Potassium absent
C1_Witness ==
    /\ ret.done
    /\ "Nitrogen_pct" \in DOMAIN args.predictions
    /\ args.predictions["Nitrogen_pct"] = plant_requirements[args.plant].Nitrogen.min
    /\ ret.suitability["Nitrogen"].status = "Optimal"
    /\ "Phosphorus_pct" \in DOMAIN args.predictions
    /\ ret.suitability["Phosphorus"].status = "Low"
    /\ "Potassium_pct" \notin DOMAIN args.predictions
    /\ "Potassium" \notin DOMAIN ret.suitability

\* Tomatoes with {Nitrogen 1.0, Phosphorus 0.5, Potassium 1.8}
C2_Scenario ==
    /\ ret.done
    /\ args.plant = "Tomatoes"
    /\ args.predictions = [Nitrogen_pct |-> Rat(1, 1), Phosphorus_pct |-> Rat(1, 2),
                           Potassium_pct |-> Rat(9, 5)]

\* C2: the recommendation list holds exactly one entry per nutrient whose
\* status is not Optimal and none for an Optimal one, in the order Nitrogen,
\* Phosphorus, Potassium; Low gets the supplement wording and High the mix
\* wording; the list is empty exactly when every analysed nutrient is Optimal.
C2_Recommendations ==
    ret.done =>
      LET NonOptimal(x) ==
              x \in DOMAIN ret.suitability /\ ret.suitability[x].status # "Optimal"
          expected == SelectSeq(Nutrients, NonOptimal)
          recs == ret.recommendations
      IN /\ Len(recs) = Len(expected)
         /\ \A i \in 1..Len(expected) :
              recs[i] = IF ret.suitability[expected[i]].status = "Low"
                        THEN <<"- ", expected[i], " is low. Consider supplementing with ",
                               expected[i], "-rich materials.">>
                        ELSE <<"- ", expected[i], " is high. Consider mixing with lower ",
                               expected[i], " materials.">>
         /\ (recs = <<>>) <=>
              (\A x \in DOMAIN ret.suitability : ret.suitability[x].status = "Optimal")
         /\ C2_Scenario =>
              /\ ret.suitability["Nitrogen"].status = "Low"
              /\ ret.suitability["Phosphorus"].status = "Optimal"
              /\ ret.suitability["Potassium"].status = "Optimal"
              /\ Len(recs) = 1 /\ recs[1][2] = "Nitrogen"

\* Nitrogen High, Phosphorus Optimal, Potassium Low: two entries, High first
C2_Witness ==
    /\ ret.done
    /\ DOMAIN ret.suitability = Range(Nutrients)
    /\ ret.suitability["Nitrogen"].status = "High"
    /\ ret.suitability["Phosphorus"].status = "Optimal"
    /\ ret.suitability["Potassium"].status = "Low"
    /\ Len(ret.recommendations) = 2

----------------------------------------------------------------------------
(* Claims about the normalizer (SpecNorm) *)

\* the table read from the file, before normalization
Raw == ReadCsv(file)

\* the default table as the claim lists it
C4_Default(col) ==
    CASE col = "Waste_Type" -> Str("Mixed")
      [] col = "Moisture_Content" -> Num(Rat(500, 10))
      [] col = "pH_Level" -> Num(Rat(65, 10))
      [] col = "Carbon_Content" -> Num(Rat(350, 10))
      [] col = "Particle_Size_mm" -> Num(Rat(100, 10))
      [] col = "Age_Days" -> Num(Rat(30, 1))
      [] col = "Degradation_Rate" -> Num(Rat(10, 10))

\* every absent expected column is inserted with its default in every row
C4_Inserted ==
    /\ data.n = Raw.n
    /\ Columns(data) = Columns(Raw) \cup FeatureColumns
    /\ \A col \in FeatureColumns \ Columns(Raw) :
         /\ Len(data.c[col]) = data.n
         /\ \A i \in 1..data.n : data.c[col][i] = C4_Default(col)

\* a column the normalization has nothing to convert or impute in
C4_Settled(col) ==
    col \notin Range(numeric_columns)
    \/ \A i \in 1..Len(Raw.c[col]) : Raw.c[col][i].k = "num"

\* C4 (as amended): every absent expected column is inserted with its fixed
\* default in every row; Waste_Type, unrecognized columns and the numeric
\* feature columns whose entries are all numbers are left unchanged.
C4_DefaultsInserted ==
    stage = "normalized" =>
      /\ C4_Inserted
      /\ \A col \in Columns(Raw) : C4_Settled(col) => data.c[col] = Raw.c[col]

\* C4 (as stated): with an expected column absent, the defaults are inserted
\* and every other existing column is left unchanged.
C4_AllOthersUnchanged ==
    (stage = "normalized" /\ FeatureColumns \ Columns(Raw) # {}) =>
      /\ C4_Inserted
      /\ \A col \in Columns(Raw) : data.c[col] = Raw.c[col]

\* Moisture_Content absent and inserted as 50.0 in two rows beside an
\* existing all-numeric pH_Level column
C4_Witness ==
    /\ stage = "normalized"
    /\ data.n > 1
    /\ "Moisture_Content" \notin Columns(Raw)
    /\ data.c["Moisture_Content"][1] = Num(Rat(50, 1))
    /\ "pH_Level" \in Columns(Raw)
    /\ \A i \in 1..data.n : Raw.c["pH_Level"][i].k = "num"
    /\ Raw.c["pH_Level"][1] # Raw.c["pH_Level"][2]

\* C5: in each mapped column every value that equals a label of the column's
\* mapping is replaced by the mapped number and every other value is passed
\* through unchanged, also in a column holding both.
C5_ConvertExact ==
    stage = "converted" =>
      /\ Columns(data) = Columns(Raw)
      /\ \A col \in Columns(Raw) :
           \A i \in 1..Raw.n :
             LET cell == Raw.c[col][i] IN
             IF col \in Range(MappedColumns) /\ cell.k = "str"
                /\ cell.s \in DOMAIN CATEGORICAL_MAPPINGS[col]
             THEN data.c[col][i] = Num(CATEGORICAL_MAPPINGS[col][cell.s])
             ELSE data.c[col][i] = cell

\* the number a raw cell stands for: a number, a label's number, a parsable
\* text; NaN for a missing or unparsable entry
C6_Value(col, cell) ==
    IF cell.k = "num" THEN cell
    ELSE IF cell.k = "str" /\ cell.s \in DOMAIN CATEGORICAL_MAPPINGS[col]
    THEN Num(CATEGORICAL_MAPPINGS[col][cell.s])
    ELSE IF cell.k = "str" /\ IsNumText(cell.s) THEN Num(NumText[cell.s])
    ELSE NaN

\* C6: after normalization every numeric feature column holds a number in
\* every row: a missing or unparsable entry is filled with the mean of the
\* column's present values, and a column with no coercible value at all is
\* filled with the column's default.
C6_AllNumeric ==
    stage = "normalized" =>
      \A col \in Range(numeric_columns) :
        /\ \A i \in 1..data.n : data.c[col][i].k = "num"
        /\ col \in Columns(Raw) =>
             LET vals == [i \in 1..Raw.n |-> C6_Value(col, Raw.c[col][i])] IN
             \A i \in 1..Raw.n :
               IF ~IsNa(vals[i]) THEN data.c[col][i] = vals[i]
               ELSE IF Count(vals) > 0 THEN data.c[col][i] = Mean(vals)
               ELSE data.c[col][i] = C4_Default(col)

----------------------------------------------------------------------------
(* Claims about a session, under Spec *)

\* st.error is the script's one way to report a failure
ErrorShown == "Error processing the file" \in out.msgs

C7_CNVerdict ==
    (out.predicted /\ "Nitrogen_pct" \in DOMAIN out.result.predictions
       /\ out.result.predictions["Nitrogen_pct"].n > 0) =>
      LET carbon == out.result.carbon
          nitrogen == out.result.predictions["Nitrogen_pct"]
          num == carbon.n * nitrogen.d
          den == carbon.d * nitrogen.n
          cn == out.result.cn
      IN /\ cn \in {"high", "low", "optimal"}
         /\ cn = "high" <=> num > 30 * den
         /\ cn = "low" <=> num < 15 * den
         /\ (num = 30 * den \/ num = 15 * den) => cn = "optimal"
         /\ (carbon = Rat(40, 1) /\ nitrogen = Rat(1, 1)) => cn = "high"
         /\ (carbon = Rat(40, 1) /\ nitrogen = Rat(4, 1)) => cn = "low"

\* Carbon 40 with a predicted Nitrogen_pct of 4.0: ratio 10, reported low
C7_Witness ==
    /\ out.predicted
    /\ out.result.carbon = Rat(40, 1)
    /\ out.result.predictions["Nitrogen_pct"] = Rat(4, 1)
    /\ out.result.cn = "low"

\* C8: after a training action on data that lacks a target, every target
\* column the file does hold keeps its original values, and the pipeline of
\* that target is fitted on them.
C8_PresentTargetsKept ==
    (stage = "trained" /\ NeedsSynthetic(Loaded[file].data)) =>
      \A t \in Range(target_variables) \cap Columns(Loaded[file].data) :
        /\ data.c[t] = Loaded[file].data.c[t]
        /\ (out.failedAt = 0) =>
             \E i \in 1..data.n : Loaded[file].data.c[t][i] = Num(models.fitted[t].lo)

\* the session holds no model set, or one pipeline per target, all three of
\* one training action
C9_Whole ==
    IF models.present
    THEN /\ DOMAIN models.fitted = Range(target_variables)
         /\ \A t, u \in DOMAIN models.fitted : models.fitted[t].by = models.fitted[u].by
    ELSE models.fitted = <<>>

\* C9: in every state the Trained Model Set is absent or holds a pipeline
\* for all three targets, all of one training action; a training that fails
\* (also at the second or third target) leaves the set as it was, and a
\* training that succeeds replaces every pipeline of the set.
C9_ModelSetWholesale ==
    /\ []C9_Whole
    /\ [][/\ (out'.request = "train" /\ out'.failedAt # 0) => models' = models
          /\ (out'.request = "train" /\ out'.failedAt = 0) =>
               /\ models'.present
               /\ \A t \in DOMAIN models'.fitted :
                    models'.fitted[t].by = NewTag(models)]_vars

\* a training that failed at the second target while the session held the
\* set of an earlier training
C9_Witness ==
    /\ out.request = "train"
    /\ out.failedAt = 2
    /\ models.present
    /\ DOMAIN models.fitted = Range(target_variables)

\* C10: for a prediction whose Nitrogen_pct is 0 no division is carried out
\* and none of the verdicts high, low, optimal is reported.
C10_ZeroGuarded ==
    (out.predicted /\ "Nitrogen_pct" \in DOMAIN out.result.predictions
       /\ out.result.predictions["Nitrogen_pct"].n = 0) =>
      /\ ~out.result.ratio.inf
      /\ out.result.cn = "none"

====
